---- MODULE Spec2Model ----
(***************************************************************************)
(* rayIntersector.py: the rayIntersector dependency node (compute,         *)
(* traceRay, isVisible) and the raySceneIntersector command (doIt).        *)
(*                                                                         *)
(* Host behaviour the source relies on and the model states explicitly:    *)
(*  - every mesh shape sits below at least one transform, so the path the  *)
(*    DAG iterator yields for a mesh has length >= 2;                      *)
(*  - every DAG node carries the attributes "visibility" and               *)
(*    "intermediateObject", so both hasAttribute tests succeed;            *)
(*  - a mesh function set built on a path attaches to the mesh when the    *)
(*    path ends at the mesh or at the transform directly above it, and     *)
(*    raises for any other path;                                           *)
(*  - closestIntersection on a miss yields no hit point (None).            *)
(* Vectors are integer triples; basis rows are axis aligned, which keeps   *)
(* lengths and normalisation exact.                                        *)
(***************************************************************************)
EXTENDS Integers, Sequences, FiniteSets, TLC

\* ------------------------------------------------------------ bounds
MaxMeshes == 2      \* meshes the DAG iterator yields in one traversal
MaxDepth == 3       \* longest DAG path of a mesh (mesh included)
MaxDist == 2        \* largest ray parameter of a closest hit
MaxScale == 2       \* largest length of a basis row of the input matrix
MaxTransforms == 2  \* most uses of the -t flag in one command call
MaxSel == 2         \* most items selected when the command starts

\* ------------------------------------------------------------ vectors
None == <<>>
Inf == <<>>

ZeroVec == <<0, 0, 0>>
VNeg(v) == <<-v[1], -v[2], -v[3]>>
VAdd(a, b) == <<a[1] + b[1], a[2] + b[2], a[3] + b[3]>>
VSub(a, b) == <<a[1] - b[1], a[2] - b[2], a[3] - b[3]>>
VScale(k, v) == <<k * v[1], k * v[2], k * v[3]>>

ISqrt(n) == CHOOSE r \in 0..n : r * r <= n /\ (r + 1) * (r + 1) > n

\* MVector.length()
VLength(v) == ISqrt(v[1] * v[1] + v[2] * v[2] + v[3] * v[3])

\* MVector.normal(): the vector scaled to unit length
Normal(v) ==
    LET len == VLength(v)
    IN  IF len = 0 THEN v ELSE <<v[1] \div len, v[2] \div len, v[3] \div len>>

Unit(i) == [k \in 1..3 |-> IF k = i THEN 1 ELSE 0]
AxisVectors == {VScale(s, Unit(i)) : s \in (-MaxScale..MaxScale) \ {0}, i \in 1..3}

\* inputMatrix: rows 0..2 are the basis rows, row 3 the translation
Matrix(r0, r1, r2, t) == <<r0, r1, r2, t>>
getElement(m, r, c) == m[r + 1][c + 1]

AllMatrices == {Matrix(r0, r1, r2, <<1, 2, 3>>) : r0 \in AxisVectors, r1 \in AxisVectors, r2 \in AxisVectors}
SampleMatrices ==
    { Matrix(<<1, 0, 0>>, <<0, 1, 0>>, <<0, 0, 1>>, <<0, 0, 0>>),
      Matrix(<<0, MaxScale, 0>>, <<-MaxScale, 0, 0>>, <<0, 0, MaxScale>>, <<1, 2, 3>>) }
Axes == 0..5

\* the attribute default of rayAxis
DefaultAxis == 5

\* ------------------------------------------------------------ scene
Node(v, i) == [visibility |-> v, intermediateObject |-> i]
Plain == Node(TRUE, FALSE)
Hidden == Node(FALSE, FALSE)
Inter == Node(TRUE, TRUE)

\* DAG paths, top-level ancestor first, the mesh shape last
PathsOfDepth(d) ==
    {p \in [1..d -> {Plain, Hidden, Inter}] : Cardinality({k \in 1..d : p[k] # Plain}) <= 1}
Paths == UNION {PathsOfDepth(d) : d \in 2..MaxDepth}
PlainPath == <<Plain, Plain>>

\* what the mesh's closest-hit query does for the ray of the evaluation
Miss == [kind |-> "miss", t |-> 0]
Raise == [kind |-> "raise", t |-> 0]
Hit(t) == [kind |-> "hit", t |-> t]
HitResults == {Miss, Raise} \cup {Hit(t) : t \in 1..MaxDist}

Mesh(p, h) == [path |-> p, hit |-> h]
\* a mesh directly below a shown top-level transform takes every query result; a
\* nested mesh, or one with a hidden or intermediate node on its path, takes the
\* closest hit, the result that would win if the mesh were queried
MeshKinds ==
    {Mesh(PlainPath, h) : h \in HitResults} \cup {Mesh(p, Hit(1)) : p \in Paths}
Scenes == UNION {[1..n -> MeshKinds] : n \in 0..MaxMeshes}

VARIABLES
    scene,              \* the meshes MItDag yields, in traversal order
    inputMatrix,        \* data block: inputMatrix
    rayAxis,            \* data block: rayAxis
    output,             \* data block: outputTranslate
    clean,              \* data block: the plug was set clean
    pc,                 \* position inside compute / traceRay / isVisible
    transformPosition,
    transformDirection,
    cursor,             \* position of dagIterator (1-based)
    dagPath,            \* the path object traceRay holds
    intersectionPoint,
    closestDistance,
    hitSource,          \* history: index of the mesh intersectionPoint came from
    yielded             \* history: indices getPath was called on

nodeVars == <<scene, inputMatrix, rayAxis, output, clean, pc, transformPosition,
              transformDirection, cursor, dagPath, intersectionPoint, closestDistance,
              hitSource, yielded>>

VARIABLES
    nodes,              \* names of the nodes in the scene
    selection,          \* the active selection list
    args,               \* the arguments of the command call
    cpc,                \* position inside doIt
    original_selection,
    transforms,
    name,
    axis,
    i,
    created_nodes,
    requested,          \* history: the name= argument of each createNode
    bindings,           \* history: the connectAttr pairs made
    raised,             \* an exception is propagating out of doIt
    preSelection        \* history: the selection when doIt was entered

cmdVars == <<nodes, selection, args, cpc, original_selection, transforms, name, axis, i,
             created_nodes, requested, bindings, raised, preSelection>>

vars == <<nodeVars, cmdVars>>

\* ------------------------------------------------------------ compute
\* MPoint(row 3 of the matrix)
TransformPosition(m) == <<getElement(m, 3, 0), getElement(m, 3, 1), getElement(m, 3, 2)>>

Row(m, r) == <<getElement(m, r, 0), getElement(m, r, 1), getElement(m, r, 2)>>

ResolveDirectionSkipNegY(m, a) ==
    CASE a = 0 -> Normal(Row(m, 0))
      [] a = 1 -> Normal(Row(m, 1))
      [] a = 2 -> Normal(Row(m, 2))
      [] a = 3 -> Normal(VNeg(Row(m, 0)))
      [] a = 4 -> Normal(Row(m, 1))
      [] OTHER -> Normal(VNeg(Row(m, 2)))

\* the if / elif chain on rayAxis
ResolveDirection(m, a) ==
    CASE a = 0 -> Normal(Row(m, 0))
      [] a = 1 -> Normal(Row(m, 1))
      [] a = 2 -> Normal(Row(m, 2))
      [] a = 3 -> Normal(VNeg(Row(m, 0)))
      [] a = 4 -> Normal(VNeg(Row(m, 1)))
      [] OTHER -> Normal(VNeg(Row(m, 2)))

OutputValueAlwaysOrigin(point, position) == position

\* the value handed to outputHandle.setMFloatVector
OutputValue(point, position) == IF point # None THEN point ELSE position

\* ------------------------------------------------------------ isVisible
NodeHidesOnlyByVisibility(node) == ~node.visibility

\* one node of the walk: visibility off, or flagged intermediate
NodeHides(node) == ~node.visibility \/ node.intermediateObject

\* dagPath.pop(1)
PopPath(p) == SubSeq(p, 1, Len(p) - 1)

\* ------------------------------------------------------------ traceRay
\* MFnMesh(dagPath): whether the function set can be built on the path
FnMeshAttaches(path, meshPath) ==
    \/ path = meshPath
    \/ Len(path) >= 1 /\ path = PopPath(meshPath)

\* fnMesh.closestIntersection(raySource, rayDirection, kWorld, inf, False)
closestIntersection(mesh, raySource, rayDirection) ==
    CASE mesh.hit.kind = "raise" -> [raises |-> TRUE, hitPoint |-> None]
      [] mesh.hit.kind = "miss" -> [raises |-> FALSE, hitPoint |-> None]
      [] OTHER -> [raises |-> FALSE,
                   hitPoint |-> VAdd(raySource, VScale(mesh.hit.t, rayDirection))]

\* distance < closestDistance
Closer(distance, closest) == closest = Inf \/ distance < closest[1]

StayAt(c) == c

\* dagIterator.next()
IterNext(c) == c + 1

isDone == cursor > Len(scene)

ComputeStart ==
    /\ pc = "idle"
    /\ transformPosition' = TransformPosition(inputMatrix)
    /\ transformDirection' = ResolveDirection(inputMatrix, rayAxis)
    /\ cursor' = 1
    /\ intersectionPoint' = None
    /\ closestDistance' = Inf
    /\ pc' = "loop"
    /\ UNCHANGED <<scene, inputMatrix, rayAxis, output, clean, dagPath, hitSource, yielded>>
    /\ UNCHANGED cmdVars

TraceGetPath ==
    /\ pc = "loop"
    /\ ~isDone
    /\ dagPath' = scene[cursor].path
    /\ yielded' = Append(yielded, cursor)
    /\ pc' = "vis"
    /\ UNCHANGED <<scene, inputMatrix, rayAxis, output, clean, transformPosition,
                   transformDirection, cursor, intersectionPoint, closestDistance, hitSource>>
    /\ UNCHANGED cmdVars

\* one iteration of the while loop of isVisible
VisStep ==
    /\ pc = "vis"
    /\ IF Len(dagPath) = 0
       THEN pc' = "query" /\ UNCHANGED dagPath
       ELSE IF NodeHides(dagPath[Len(dagPath)])
            THEN pc' = "skip" /\ UNCHANGED dagPath
            ELSE IF Len(dagPath) <= 1
                 THEN pc' = "query" /\ UNCHANGED dagPath
                 ELSE pc' = "vis" /\ dagPath' = PopPath(dagPath)
    /\ UNCHANGED <<scene, inputMatrix, rayAxis, output, clean, transformPosition,
                   transformDirection, cursor, intersectionPoint, closestDistance,
                   hitSource, yielded>>
    /\ UNCHANGED cmdVars

\* the body of "if self.isVisible(dagPath):"
MeshQuery ==
    /\ pc = "query"
    /\ IF ~FnMeshAttaches(dagPath, scene[cursor].path)
       THEN /\ pc' = "except"
            /\ UNCHANGED <<intersectionPoint, closestDistance, hitSource>>
       ELSE LET r == closestIntersection(scene[cursor], transformPosition, transformDirection)
                distance == VLength(VSub(r.hitPoint, transformPosition))
            IN  /\ pc' = "next"
                /\ IF ~r.raises /\ r.hitPoint # None /\ Closer(distance, closestDistance)
                   THEN /\ closestDistance' = <<distance>>
                        /\ intersectionPoint' = r.hitPoint
                        /\ hitSource' = cursor
                   ELSE UNCHANGED <<intersectionPoint, closestDistance, hitSource>>
    /\ UNCHANGED <<scene, inputMatrix, rayAxis, output, clean, transformPosition,
                   transformDirection, cursor, dagPath, yielded>>
    /\ UNCHANGED cmdVars

TraceNext ==
    /\ pc \in {"skip", "next"}
    /\ cursor' = IterNext(cursor)
    /\ pc' = "loop"
    /\ UNCHANGED <<scene, inputMatrix, rayAxis, output, clean, transformPosition,
                   transformDirection, dagPath, intersectionPoint, closestDistance,
                   hitSource, yielded>>
    /\ UNCHANGED cmdVars

\* traceRay returned: write the output and set the plug clean
ComputeWrite ==
    /\ pc = "loop"
    /\ isDone
    /\ output' = OutputValue(intersectionPoint, transformPosition)
    /\ clean' = TRUE
    /\ pc' = "done"
    /\ UNCHANGED <<scene, inputMatrix, rayAxis, transformPosition, transformDirection,
                   cursor, dagPath, intersectionPoint, closestDistance, hitSource, yielded>>
    /\ UNCHANGED cmdVars

\* except Exception: print and return
ComputeExcept ==
    /\ pc = "except"
    /\ pc' = "failed"
    /\ UNCHANGED <<scene, inputMatrix, rayAxis, output, clean, transformPosition,
                   transformDirection, cursor, dagPath, intersectionPoint,
                   closestDistance, hitSource, yielded>>
    /\ UNCHANGED cmdVars

NodeLocalsInit ==
    /\ output = ZeroVec
    /\ clean = FALSE
    /\ pc = "idle"
    /\ transformPosition = None
    /\ transformDirection = None
    /\ cursor = 1
    /\ dagPath = <<>>
    /\ intersectionPoint = None
    /\ closestDistance = Inf
    /\ hitSource = 0
    /\ yielded = <<>>

CmdIdle ==
    /\ nodes = {}
    /\ selection = <<>>
    /\ args = <<>>
    /\ cpc = "idle"
    /\ original_selection = <<>>
    /\ transforms = <<>>
    /\ name = ""
    /\ axis = 0
    /\ i = 0
    /\ created_nodes = <<>>
    /\ requested = <<>>
    /\ bindings = <<>>
    /\ raised = FALSE
    /\ preSelection = <<>>

Init ==
    /\ scene \in Scenes
    /\ inputMatrix \in SampleMatrices
    /\ rayAxis \in Axes
    /\ NodeLocalsInit
    /\ CmdIdle

Next ==
    \/ ComputeStart
    \/ TraceGetPath
    \/ VisStep
    \/ MeshQuery
    \/ TraceNext
    \/ ComputeWrite
    \/ ComputeExcept

Spec == Init /\ [][Next]_vars

\* the direction resolver alone, over every axis-aligned basis
DirInit ==
    /\ scene = <<>>
    /\ inputMatrix \in AllMatrices
    /\ rayAxis \in Axes
    /\ NodeLocalsInit
    /\ CmdIdle

DirNext == ComputeStart

DirSpec == DirInit /\ [][DirNext]_vars

\* ------------------------------------------------------------ raySceneIntersector
\* the scene the command runs in: long names, as ls(l=True) reports them
SceneNodes == {"|t1", "|j1", "|t1|shape1", "lambert1"}

\* mc.nodeType
nodeType(n) ==
    CASE n \in {"|t1", "t1"} -> "transform"
      [] n = "|j1" -> "joint"
      [] n = "|t1|shape1" -> "mesh"
      [] n = "lambert1" -> "lambert"
      [] OTHER -> "none"

\* mc.listRelatives(item, p=1): short names; nothing for a node without a DAG parent
listRelatives(n) == IF n = "|t1|shape1" THEN <<"t1">> ELSE <<>>

\* connectAttr(transform.worldMatrix[0], ...) succeeds on an existing DAG node
HasWorldMatrix(n) == nodeType(n) \in {"transform", "joint", "mesh"}

NoRepeat(q) == \A a, b \in 1..Len(q) : a # b => q[a] # q[b]
Selections == {q \in UNION {[1..n -> SceneNodes] : n \in 0..MaxSel} : NoRepeat(q)}

TNames == {"|t1", "|j1", "ghost"}
TLists == UNION {[1..n -> TNames] : n \in 1..MaxTransforms}

\* the command line: bad = MArgDatabase rejects it; t = <<>> = flag -t not set
ArgSets ==
    {[bad |-> TRUE, t |-> <<>>, hasN |-> FALSE, n |-> "", hasA |-> FALSE, a |-> 0]}
    \cup [bad : {FALSE}, t : {<<>>} \cup TLists, hasN : {TRUE}, n : {"ray1"},
          hasA : {TRUE}, a : {0}]
    \cup [bad : {FALSE}, t : {<<>>} \cup TLists, hasN : {FALSE}, n : {""},
          hasA : {FALSE}, a : {0}]

RECURSIVE FromSelection(_)
\* the else branch of "if argData.isFlagSet('-t')"
FromSelection(sel) ==
    IF sel = <<>> THEN <<>>
    ELSE LET item == Head(sel)
             parents == listRelatives(item)
             rest == FromSelection(Tail(sel))
         IN  IF nodeType(item) \in {"joint", "transform"}
             THEN <<item>> \o rest
             ELSE IF parents # <<>> /\ nodeType(parents[1]) \in {"joint", "transform"}
                  THEN <<parents[1]>> \o rest
                  ELSE rest

NodeNameZeroBased(base, k) == IF k > 0 THEN base \o "_" \o ToString(k) ELSE base

\* node_name = f"{name}_{i + 1}" if i > 0 else name
NodeName(base, k) == IF k > 0 THEN base \o "_" \o ToString(k + 1) ELSE base

LocatorName(node_name) == "locator_" \o node_name

RestoredSelectionNoClear(orig, cur, existing) ==
    IF orig # <<>>
    THEN IF \A k \in 1..Len(orig) : orig[k] \in existing THEN orig ELSE cur
    ELSE cur

\* the finally block: select(original, replace=True), ValueError swallowed, or select(clear=True)
RestoredSelection(orig, cur, existing) ==
    IF orig # <<>>
    THEN IF \A k \in 1..Len(orig) : orig[k] \in existing THEN orig ELSE cur
    ELSE <<>>

\* lines 208-248: remember the selection, parse the arguments
DoItBegin ==
    /\ cpc = "idle"
    /\ original_selection' = selection
    /\ IF args.bad
       THEN /\ cpc' = "except"
            /\ UNCHANGED <<transforms, name, axis>>
       ELSE /\ transforms' = IF args.t # <<>> THEN args.t ELSE FromSelection(selection)
            /\ name' = IF args.hasN THEN args.n ELSE "rayIntersector1"
            /\ axis' = IF args.hasA THEN args.a ELSE DefaultAxis
            /\ cpc' = "create"
    /\ i' = 0
    /\ created_nodes' = <<>>
    /\ UNCHANGED <<nodes, selection, args, requested, bindings, raised, preSelection>>
    /\ UNCHANGED nodeVars

\* one iteration of "for i, transform in enumerate(transforms)"
DoItCreate ==
    /\ cpc = "create"
    /\ i < Len(transforms)
    /\ LET transform == transforms[i + 1]
           node_name == NodeName(name, i)
           ri == node_name
           loc == LocatorName(node_name)
       IN  /\ requested' = Append(requested, node_name)
           /\ \/ \* createNode raises
                 /\ cpc' = "except"
                 /\ UNCHANGED <<nodes, selection, created_nodes, bindings, i>>
              \/ \* the nodes are created and selected; connectAttr raises
                 /\ ~HasWorldMatrix(transform)
                 /\ nodes' = nodes \cup {ri, loc}
                 /\ selection' = <<loc>>
                 /\ cpc' = "except"
                 /\ UNCHANGED <<created_nodes, bindings, i>>
              \/ /\ HasWorldMatrix(transform)
                 /\ nodes' = nodes \cup {ri, loc}
                 /\ selection' = <<loc>>
                 /\ bindings' = Append(bindings, [src |-> transform, ri |-> ri, loc |-> loc,
                                               rayAxis |-> axis])
                 /\ created_nodes' = created_nodes \o <<ri, loc>>
                 /\ i' = i + 1
                 /\ cpc' = "create"
    /\ UNCHANGED <<args, original_selection, transforms, name, axis, raised, preSelection>>
    /\ UNCHANGED nodeVars

\* self.setResult(created_nodes)
DoItResult ==
    /\ cpc = "create"
    /\ i = Len(transforms)
    /\ cpc' = "finally"
    /\ UNCHANGED <<nodes, selection, args, original_selection, transforms, name, axis, i,
                   created_nodes, requested, bindings, raised, preSelection>>
    /\ UNCHANGED nodeVars

\* except Exception: displayError, raise
DoItExcept ==
    /\ cpc = "except"
    /\ raised' = TRUE
    /\ cpc' = "finally"
    /\ UNCHANGED <<nodes, selection, args, original_selection, transforms, name, axis, i,
                   created_nodes, requested, bindings, preSelection>>
    /\ UNCHANGED nodeVars

DoItFinally ==
    /\ cpc = "finally"
    /\ selection' = RestoredSelection(original_selection, selection, nodes)
    /\ cpc' = IF raised THEN "raised" ELSE "done"
    /\ UNCHANGED <<nodes, args, original_selection, transforms, name, axis, i,
                   created_nodes, requested, bindings, raised, preSelection>>
    /\ UNCHANGED nodeVars

NodeIdle ==
    /\ scene = <<>>
    /\ inputMatrix \in {CHOOSE m \in SampleMatrices : TRUE}
    /\ rayAxis = DefaultAxis
    /\ NodeLocalsInit

CmdInit ==
    /\ nodes = SceneNodes
    /\ selection \in Selections
    /\ args \in ArgSets
    /\ cpc = "idle"
    /\ original_selection = <<>>
    /\ transforms = <<>>
    /\ name = ""
    /\ axis = 0
    /\ i = 0
    /\ created_nodes = <<>>
    /\ requested = <<>>
    /\ bindings = <<>>
    /\ raised = FALSE
    /\ preSelection = selection
    /\ NodeIdle

CmdNext ==
    \/ DoItBegin
    \/ DoItCreate
    \/ DoItResult
    \/ DoItExcept
    \/ DoItFinally

CmdSpec == CmdInit /\ [][CmdNext]_vars

\* ============================================================ properties
\* traceRay has ended: it returned (the loop saw isDone) or an exception left it
Returned == (pc = "loop" /\ isDone) \/ pc = "done"
Aborted == pc \in {"except", "failed"}
TraceEnded == Returned \/ Aborted

\* every node of the path shown and none flagged intermediate
PathShown(p) == \A k \in 1..Len(p) : p[k].visibility /\ ~p[k].intermediateObject

\* every node of the path shown and the mesh itself not flagged intermediate
MeshShown(p) == (\A k \in 1..Len(p) : p[k].visibility) /\ ~p[Len(p)].intermediateObject

\* the hit of mesh k on the ray of the evaluation: its point and its distance
HitPointOf(k) == VAdd(transformPosition, VScale(scene[k].hit.t, transformDirection))
HitDistance(k) == scene[k].hit.t

\* the member of S hit at the least distance, the earliest of them on a tie; 0 for none
BestOf(S) ==
    IF S = {} THEN 0
    ELSE CHOOSE k \in S : \A j \in S :
            HitDistance(k) < HitDistance(j) \/ (HitDistance(k) = HitDistance(j) /\ k <= j)

PointOf(k) == IF k = 0 THEN None ELSE HitPointOf(k)

VisibleHits == {k \in 1..Len(scene) : PathShown(scene[k].path) /\ scene[k].hit.kind = "hit"}

\* a traversal that returns yields the closest visible hit, first on a tie
ReturnedClosest ==
    Returned => hitSource = BestOf(VisibleHits) /\ intersectionPoint = PointOf(hitSource)

\* C1: for every ray and every scene traceRay returns the hit point of the visible
\* mesh hit at the least distance from the origin, the first in traversal order on
\* a tie, and None when no visible mesh is hit.
C1_ClosestVisibleHit ==
    TraceEnded =>
        /\ Returned
        /\ hitSource = BestOf(VisibleHits)
        /\ intersectionPoint = PointOf(BestOf(VisibleHits))

C3_OutputWritten ==
    pc = "done" =>
        /\ clean
        /\ intersectionPoint = None =>
              output = <<inputMatrix[4][1], inputMatrix[4][2], inputMatrix[4][3]>>
        /\ intersectionPoint # None => output = intersectionPoint

\* nothing visible is hit although a mesh is in the way: the origin is written
C3_Witness ==
    /\ pc = "done"
    /\ intersectionPoint = None
    /\ scene # <<>>
    /\ output = <<1, 2, 3>>

\* C4: after every evaluation, one that raised included, the output is a valid
\* intersection point of the query or the translation of the input matrix.
C4_OutputAlwaysDefined ==
    pc \in {"done", "failed"} =>
        \/ output = <<inputMatrix[4][1], inputMatrix[4][2], inputMatrix[4][3]>>
        \/ \E k \in VisibleHits : output = HitPointOf(k)

\* the meshes whose query fails: the function set cannot be built or the
\* closest-hit query raises
QueryFails(k) ==
    \/ scene[k].hit.kind = "raise"
    \/ ~FnMeshAttaches(<<scene[k].path[1]>>, scene[k].path)

SoundHits == {k \in VisibleHits : ~QueryFails(k)}

\* C5: a visible mesh whose function set or closest-hit query raises counts as not
\* hit; the traversal goes on and returns the closest hit among the other visible
\* meshes, and the failure never aborts the query.
C5_FailureIsolated ==
    (TraceEnded /\ \E k \in 1..Len(scene) : PathShown(scene[k].path) /\ QueryFails(k)) =>
        /\ ~Aborted
        /\ hitSource = BestOf(SoundHits)

\* C6: for the selectors 0..5 the direction handed to traceRay is the unit vector
\* along basis row (selector mod 3), reversed exactly for selectors 3, 4, 5; the
\* default selector 5 gives the reversed row 2.
SignedRow(m, a) == IF a >= 3 THEN VNeg(m[(a % 3) + 1]) ELSE m[(a % 3) + 1]
IsUnitAlong(d, v) == VLength(d) = 1 /\ VScale(VLength(v), d) = v

C6_SignedBasisRow ==
    /\ pc = "loop" => IsUnitAlong(transformDirection, SignedRow(inputMatrix, rayAxis))
    /\ (pc = "loop" /\ rayAxis = DefaultAxis) =>
          IsUnitAlong(VNeg(transformDirection), inputMatrix[3])
    /\ \A a \in 0..5 : IsUnitAlong(ResolveDirection(inputMatrix, a), SignedRow(inputMatrix, a))

\* selector -Y on a basis row that is not of unit length
C6_Witness ==
    /\ pc = "loop"
    /\ rayAxis = 4
    /\ VLength(inputMatrix[2]) = MaxScale
    /\ inputMatrix[2] # inputMatrix[1]

\* C9: the work left in the traversal, which every step of traceRay and isVisible
\* makes smaller
Remaining ==
    CASE pc = "loop" -> (Len(scene) + 1 - cursor) * (MaxDepth + 5) + MaxDepth + 4
      [] pc = "vis" -> (Len(scene) + 1 - cursor) * (MaxDepth + 5) + Len(dagPath) + 3
      [] pc = "query" -> (Len(scene) + 1 - cursor) * (MaxDepth + 5) + 3
      [] pc \in {"skip", "next"} -> (Len(scene) + 1 - cursor) * (MaxDepth + 5) + 2
      [] OTHER -> 0

InTrace == pc \in {"loop", "vis", "query", "skip", "next"}

C10_PathUnchanged ==
    pc = "query" => dagPath = scene[cursor].path

\* C7: when doIt has finished, normally or by raising, the selection is the one
\* that existed when it started, the empty selection included.
C7_SelectionRestored ==
    cpc \in {"done", "raised"} => selection = preSelection

\* doIt raised after it had created and selected nodes, with nothing selected before
C7_Witness ==
    /\ cpc = "raised"
    /\ preSelection = <<>>
    /\ Len(requested) >= 2
    /\ created_nodes # <<>>

\* C8: the first query node is requested under the base name, the k-th (k >= 2)
\* under base_k; the names of a batch differ pairwise; each source transform gets
\* one query node and one locator, reported in source order.
C8_BatchNames ==
    /\ \A k \in 1..Len(requested) :
          requested[k] = IF k = 1 THEN name ELSE name \o "_" \o ToString(k)
    /\ Len(requested) >= 2 => requested[2] \notin {name \o "_1", name}
    /\ \A a, b \in 1..Len(requested) : a # b => requested[a] # requested[b]
    /\ cpc = "done" =>
          /\ Len(requested) = Len(transforms)
          /\ Len(bindings) = Len(transforms)
          /\ Len(created_nodes) = 2 * Len(transforms)
          /\ \A k \in 1..Len(transforms) :
                /\ bindings[k].src = transforms[k]
                /\ bindings[k].ri = requested[k]
                /\ created_nodes[2 * k - 1] = bindings[k].ri
                /\ created_nodes[2 * k] = bindings[k].loc
                /\ bindings[k].loc # bindings[k].ri

\* a batch of two transforms has completed
C8_Witness ==
    /\ cpc = "done"
    /\ Len(transforms) = 2
    /\ requested = <<"ray1", "ray1_2">>

====
